---- MODULE Spec2Model ----
(***************************************************************************)
(* Model of the relief-fitness pipeline of nova_reliefIQ: the need-matrix  *)
(* builder, the match/urgency scorers, model training, the query paths     *)
(* and the Modal pipeline orchestrator.                                    *)
(*                                                                         *)
(* Numbers.  The scripts compute in floating point.  The model carries     *)
(* every quantity as an integer in a fixed unit; the cosine rounds each of *)
(* its operations to the nearest unit, the rest rounds towards zero:       *)
(*   need values and raw percentages   units of 1      (0 .. 100)          *)
(*   match                             units of 1/100                      *)
(*   urgency                           units of 1/100                      *)
(*   fitness label                     units of 1/1000                     *)
(* NaN is one extra value that every arithmetic operator propagates.       *)
(***************************************************************************)
EXTENDS Integers, Sequences, FiniteSets, TLC

\* ------------------------------------------------------------------ bounds
\* rows of the capability table and of the need matrix handed to the scorers
MaxNgoRows == 1
MaxNeedRows == 1
\* rows of the damage table and of the population table
MaxDamageRows == 2
MaxPopRows == 2
\* rows of the capability table handed to the batch scorers
MaxBatchNgos == 2
\* components of the vectors handed to cosine
MaxVecLen == 2
\* concurrent inference requests, and runs of the pipeline
NReaders == 2
MaxRuns == 1

\* ------------------------------------------------------------- numbers
NaN == 0 - 1000000
IsNaN(x) == x = NaN

\* the need scale of MinMaxScaler((0,100)): one unit of match and of urgency
\* is 1/Percent
Percent == 100

Abs(x) == IF x < 0 THEN 0 - x ELSE x

\* floor(sqrt(n)) for n >= 0
RECURSIVE ISqrtFrom(_, _, _)
ISqrtFrom(n, lo, hi) ==
    IF lo = hi THEN lo
    ELSE LET mid == (lo + hi + 1) \div 2
         IN IF mid * mid <= n THEN ISqrtFrom(n, mid, hi)
            ELSE ISqrtFrom(n, lo, mid - 1)
ISqrt(n) == ISqrtFrom(n, 0, IF n < 46340 THEN n ELSE 46340)

\* Floating point rounds the result of every operation to the nearest value
\* it can hold.  The model does the same at the precision of its unit: a
\* square root and a quotient are rounded to the nearest unit.
RSqrt(n) == LET r == ISqrt(n) IN IF n - r * r > r THEN r + 1 ELSE r
RDiv(x, y) ==
    IF x >= 0 THEN (2 * x + y) \div (2 * y)
    ELSE 0 - ((2 * (0 - x) + y) \div (2 * y))

\* ------------------------------------------------------------- names
Shelter == "Emergency Shelter & Housing"
Wash == "Water & Sanitation Recovery"
Food == "Emergency Food Distribution"
Logistics == "Emergency Logistics & Transportation"
Rescue == "Search Rescue & Evacuation"
Health == "Emergency Health Response"
Cash == "Immediate Cash Assistance"
Comms == "Emergency Communications"
Psych == "Psychosocial First Aid"
Infra == "Critical Infrastructure Restoration"
Agri == "Agricultural Recovery"

\* the eleven need columns written by build_need_matrix.py (rename map)
NeedCols == {Shelter, Wash, Food, Logistics, Rescue, Health, Cash, Comms,
             Psych, Infra, Agri}

\* other column names the tables carry
RescuePunct == "Search, Rescue & Evacuation"
CapacityScore == "capacity_score"

\* ------------------------------------------------------------- tables
\* A table is [cols |-> set of column names, rows |-> sequence of rows]; a
\* row is [key |-> value of the key column, v |-> [value column -> number]].
\* cols holds the key column's name too ("district", "NGO").
ValueCols(T, keycol) == T.cols \ {keycol}

\* index of the first row whose key is name, 0 when there is none
\* (the boolean mask followed by .values[0])
RECURSIVE FindFrom(_, _, _)
FindFrom(rows, name, i) ==
    IF i > Len(rows) THEN 0
    ELSE IF rows[i].key = name THEN i
    ELSE FindFrom(rows, name, i + 1)
Find(rows, name) == FindFrom(rows, name, 1)

Keys(rows) == {rows[i].key : i \in 1..Len(rows)}

\* re.sub(r'[^0-9A-Za-z &]+','', c).strip() on the column names of the model
Clean(c) ==
    CASE c = RescuePunct -> Rescue
      [] c = CapacityScore -> "capacityscore"
      [] OTHER -> c

clean_cols(T) ==
    LET newcols == {Clean(c) : c \in T.cols}
        Old(c2, v) == CHOOSE c \in DOMAIN v : Clean(c) = c2
    IN [cols |-> newcols,
        rows |-> [i \in 1..Len(T.rows) |->
                    [key |-> T.rows[i].key,
                     v |-> [c2 \in {Clean(c) : c \in DOMAIN T.rows[i].v} |->
                              T.rows[i].v[Old(c2, T.rows[i].v)]]]]]

\* cats = [c for c in needs.columns if c in ngos.columns and c != "district"]
Cats(needsT, ngosT) ==
    {c \in needsT.cols : c \in ngosT.cols /\ c # "district"}

\* ------------------------------------------------------------- vectors
\* A vector is a function from the category set to numbers.
HasNaN(a, cats) == \E c \in cats : IsNaN(a[c])

RECURSIVE SumProd(_, _, _)
SumProd(a, b, cats) ==
    IF cats = {} THEN 0
    ELSE LET c == CHOOSE x \in cats : TRUE
         IN a[c] * b[c] + SumProd(a, b, cats \ {c})

\* np.dot(a, b)
Dot(a, b, cats) ==
    IF HasNaN(a, cats) \/ HasNaN(b, cats) THEN NaN ELSE SumProd(a, b, cats)

\* np.linalg.norm(a) squared
Norm2(a, cats) == Dot(a, a, cats)

\* np.linalg.norm of a vector whose squared norm is n2, in units of
\* 1/Percent
Norm(n2) == RSqrt(n2 * Percent * Percent)

\* dot / (|a| * |b|) in units of 1/Percent, computed as the code computes
\* it: the two norms, their product, then the quotient, each rounded; 0/0 is
\* NaN
Quotient(dot, na2, nb2) ==
    IF IsNaN(dot) \/ IsNaN(na2) \/ IsNaN(nb2) THEN NaN
    ELSE IF na2 * nb2 = 0 THEN NaN
    ELSE LET prod == RDiv(Norm(na2) * Norm(nb2), Percent)
         IN RDiv(dot * Percent * Percent, prod)

\* cosine of compute_fitness.py and of the HTTP endpoint: zero norm gives 0
cosine_guarded(a, b, cats) ==
    IF Norm2(a, cats) = 0 \/ Norm2(b, cats) = 0 THEN 0
    ELSE Quotient(Dot(a, b, cats), Norm2(a, cats), Norm2(b, cats))

\* cosine of predict.py and generate_all_scores.py: no zero-norm test
cosine_raw(a, b, cats) ==
    Quotient(Dot(a, b, cats), Norm2(a, cats), Norm2(b, cats))

RECURSIVE SumVec(_, _)
SumVec(a, cats) ==
    IF cats = {} THEN 0
    ELSE LET c == CHOOSE x \in cats : TRUE
         IN a[c] + SumVec(a, cats \ {c})

\* mutant: the sum of the components, not their mean
urgency_sum(N, cats) ==
    IF cats = {} \/ HasNaN(N, cats) THEN NaN ELSE SumVec(N, cats)

\* N.mean()/100 in units of 1/Percent; the mean of no component is NaN
urgency_of(N, cats) ==
    IF cats = {} \/ HasNaN(N, cats) THEN NaN
    ELSE SumVec(N, cats) \div Cardinality(cats)

\* mutant: the label with match rescaled by (match + 1) / 2
label_rescaled(match, urgency) ==
    IF IsNaN(match) \/ IsNaN(urgency) THEN NaN
    ELSE (7 * (match + Percent)) \div 2 + 3 * urgency

\* score = 0.7*match + 0.3*urgency, in units of 1/(10*Percent)
label_of(match, urgency) ==
    IF IsNaN(match) \/ IsNaN(urgency) THEN NaN
    ELSE 7 * match + 3 * urgency

\* ------------------------------------------------------------- files
\* A CSV output is [exists |-> BOOLEAN, table |-> table].
NoTable == [cols |-> {}, rows |-> << >>]
Absent == [exists |-> FALSE, table |-> NoTable]
FileOf(T) == [exists |-> TRUE, table |-> T]

\* A fitted regressor is identified by the rows it was fitted on
\* (random_state=42 fixes everything else).
NoModel == [trained |-> FALSE, data |-> << >>]
ModelOf(data) == [trained |-> TRUE, data |-> data]

\* outputs/model.pkl: the pickle of a model is PickleChunks writes long;
\* written counts the writes that reached the file.
PickleChunks == 2
NoPickle == [exists |-> FALSE, model |-> NoModel, written |-> 0]
Pickled(m, k) ==
    [exists |-> TRUE, model |-> IF k = 0 THEN NoModel ELSE m, written |-> k]
Complete(f) == f.exists /\ f.written = PickleChunks

\* mutant: a load that takes what a cut-off stream holds
pickle_load_lenient(f) ==
    IF ~f.exists THEN [err |-> "FileNotFoundError", model |-> NoModel]
    ELSE [err |-> "", model |-> f.model]

\* pickle.load(open(path, "rb")): the open fails on a missing file, the load
\* on a stream that ends before the pickle's STOP opcode
pickle_load(f) ==
    IF ~f.exists THEN [err |-> "FileNotFoundError", model |-> NoModel]
    ELSE IF f.written = 0 THEN [err |-> "EOFError", model |-> NoModel]
    ELSE IF f.written < PickleChunks
         THEN [err |-> "UnpicklingError", model |-> NoModel]
    ELSE [err |-> "", model |-> f.model]

\* ------------------------------------------------------------- outcomes
\* What one call of a query path ends in.  kind is "ok" or the exception or
\* error response that ended it; scored says that match and urgency were
\* computed, predicted that model.predict returned a fitness.
Outcome(kind, scored, m, u, predicted, fit, model) ==
    [kind |-> kind, scored |-> scored, match |-> m, urgency |-> u,
     predicted |-> predicted, fitness |-> fit, model |-> model]
Failed(kind) == Outcome(kind, FALSE, 0, 0, FALSE, 0, NoModel)

\* The regressor itself is scikit-learn's.  The model stands in for its
\* value at (m, u) with the mean label of the training rows nearest to
\* (m, u); a NaN feature is at distance 0 of everything.
Dist(x, y) == IF IsNaN(x) \/ IsNaN(y) THEN 0 ELSE Abs(x - y)
RowDist(row, m, u) == Dist(row[1], m) + Dist(row[2], u)
RECURSIVE SumLabels(_, _)
SumLabels(data, I) ==
    IF I = {} THEN 0
    ELSE LET i == CHOOSE x \in I : TRUE
         IN data[i][3] + SumLabels(data, I \ {i})
forest_value(model, m, u) ==
    LET data == model.data
        I == 1..Len(data)
        near == {i \in I : \A k \in I : RowDist(data[i], m, u) <= RowDist(data[k], m, u)}
    IN IF near = {} THEN 0 ELSE SumLabels(data, near) \div Cardinality(near)

\* model.predict(X) on one row: a NaN feature is refused (ValueError) or
\* accepted, by the scikit-learn in use; nanOk is that choice
model_predict(model, m, u, nanOk) ==
    IF (IsNaN(m) \/ IsNaN(u)) /\ ~nanOk
    THEN Outcome("ValueError", TRUE, m, u, FALSE, 0, model)
    ELSE Outcome("ok", TRUE, m, u, TRUE, forest_value(model, m, u), model)

\* the spec's error taxonomy for the ways a query path ends
UnknownEntityKinds == {"IndexError", "Exit1NotFound", "Http404"}
NoOverlapKinds == {"NoOverlapValueError", "Http500NoOverlap"}
ModelNotTrainedKinds == {"FileNotFoundError", "EOFError", "UnpicklingError"}

\* mutant: an unknown name falls back to the first row of its table
predict_fitness_fallback(needsT, ngosT, model, ngo, district, nanOk) ==
    LET cats == Cats(needsT, ngosT)
        i == Find(ngosT.rows, ngo)
        j == Find(needsT.rows, district)
    IN IF ngosT.rows = << >> \/ needsT.rows = << >> THEN Failed("IndexError")
       ELSE LET ngo_vec == ngosT.rows[IF i = 0 THEN 1 ELSE i].v
                reg_vec == needsT.rows[IF j = 0 THEN 1 ELSE j].v
                match == cosine_raw(ngo_vec, reg_vec, cats)
                urgency == urgency_of(reg_vec, cats)
            IN model_predict(model, match, urgency, nanOk)

\* predict_fitness(ngo_name, region_name) of predict.py
predict_fitness(needsT, ngosT, model, ngo, district, nanOk) ==
    LET cats == Cats(needsT, ngosT)
        i == Find(ngosT.rows, ngo)
        j == Find(needsT.rows, district)
    IN IF i = 0 \/ j = 0 THEN Failed("IndexError")
       ELSE LET ngo_vec == ngosT.rows[i].v
                reg_vec == needsT.rows[j].v
                match == cosine_raw(ngo_vec, reg_vec, cats)
                urgency == urgency_of(reg_vec, cats)
            IN model_predict(model, match, urgency, nanOk)

\* import of predict.py (lines 13-21) followed by a call of predict_fitness
predict_module(needsF, ngosT, modelF, ngo, district, nanOk) ==
    LET ld == pickle_load(modelF)
    IN IF ld.err # "" THEN Failed(ld.err)
       ELSE IF ~needsF.exists THEN Failed("FileNotFoundError")
       ELSE predict_fitness(needsF.table, ngosT, ld.model, ngo, district, nanOk)

\* python predict.py NGO_NAME DISTRICT_NAME
predict_cli(needsF, ngosT, modelF, ngo, district, nanOk) ==
    LET ld == pickle_load(modelF)
    IN IF ld.err # "" THEN Failed(ld.err)
       ELSE IF ~needsF.exists THEN Failed("FileNotFoundError")
       ELSE IF ngo \notin Keys(ngosT.rows) THEN Failed("Exit1NotFound")
       ELSE IF district \notin Keys(needsF.table.rows)
            THEN Failed("Exit1NotFound")
       ELSE predict_fitness(needsF.table, ngosT, ld.model, ngo, district, nanOk)

\* POST /predict of the dashboard app; "" stands for a missing or empty field
predict(needsF, ngosT, modelF, ngo, district, nanOk) ==
    IF ngo = "" \/ district = "" THEN Failed("Http400")
    ELSE IF ~needsF.exists THEN Failed("FileNotFoundError")
    ELSE LET ld == pickle_load(modelF)
             needsT == needsF.table
             cats == Cats(needsT, ngosT)
             i == Find(ngosT.rows, ngo)
             j == Find(needsT.rows, district)
         IN IF ld.err # "" THEN Failed(ld.err)
            ELSE IF cats = {} THEN Failed("Http500NoOverlap")
            ELSE IF i = 0 \/ j = 0 THEN Failed("Http404")
            ELSE LET ngo_vec == ngosT.rows[i].v
                     reg_vec == needsT.rows[j].v
                     match == cosine_guarded(ngo_vec, reg_vec, cats)
                     urgency == urgency_of(reg_vec, cats)
                 IN model_predict(ld.model, match, urgency, nanOk)

\* ------------------------------------------------------------- scripts
\* What one run of a script ends in: rc = 0 and the file it wrote, or
\* rc = 1 and the exception that ended it before it wrote anything.
Ran(T) == [rc |-> 0, err |-> "", wrote |-> TRUE, table |-> T]
Raised(e) == [rc |-> 1, err |-> e, wrote |-> FALSE, table |-> NoTable]
\* the exception came after the file was written
RaisedAfter(e, T) == [rc |-> 1, err |-> e, wrote |-> TRUE, table |-> T]

ScoreCols == {"NGO", "district", "match", "urgency", "fitness_score"}
ScoreRow(n, d, m, u, f) ==
    [NGO |-> n, district |-> d, match |-> m, urgency |-> u, fitness_score |-> f]
\* pd.DataFrame(rows): a frame built from no row has no column
ScoreTable(rows) ==
    [cols |-> IF rows = << >> THEN {} ELSE ScoreCols, rows |-> rows]

\* the pair scored at position k of the nested loops over n x m rows
PairAt(k, m) == [i |-> ((k - 1) \div m) + 1, j |-> ((k - 1) % m) + 1]

\* mutant: a scorer that keeps the pairs whose label is NaN
compute_fitness_keep_nan(needsF, ngosRaw) ==
    IF ~needsF.exists THEN Raised("FileNotFoundError")
    ELSE
    LET needs == clean_cols(needsF.table)
        ngos_ == clean_cols(ngosRaw)
        cats == Cats(needs, ngos_)
        n == Len(ngos_.rows)
        m == Len(needs.rows)
        score(k) ==
            LET p == PairAt(k, m)
                C == ngos_.rows[p.i].v
                N == needs.rows[p.j].v
                match == cosine_guarded(C, N, cats)
                urgency == urgency_of(N, cats)
            IN ScoreRow(ngos_.rows[p.i].key, needs.rows[p.j].key,
                        match, urgency, label_of(match, urgency))
    IN IF cats = {} THEN Raised("NoOverlapValueError")
       ELSE Ran(ScoreTable([k \in 1..(n * m) |-> score(k)]))

\* compute_fitness.py, lines 12-34
compute_fitness(needsF, ngosRaw) ==
    IF ~needsF.exists THEN Raised("FileNotFoundError")
    ELSE
    LET needs == clean_cols(needsF.table)
        ngos_ == clean_cols(ngosRaw)
        cats == Cats(needs, ngos_)
        n == Len(ngos_.rows)
        m == Len(needs.rows)
        score(k) ==
            LET p == PairAt(k, m)
                C == ngos_.rows[p.i].v
                N == needs.rows[p.j].v
                match == cosine_guarded(C, N, cats)
                urgency == urgency_of(N, cats)
            IN ScoreRow(ngos_.rows[p.i].key, needs.rows[p.j].key,
                        match, urgency, label_of(match, urgency))
        all == [k \in 1..(n * m) |-> score(k)]
        NotNaN(r) == ~IsNaN(r.fitness_score)
    IN IF cats = {} THEN Raised("NoOverlapValueError")
       ELSE Ran(ScoreTable(SelectSeq(all, NotNaN)))

\* train_model.py, lines 5-14: the model fitted, or the exception raised
\* before any byte of model.pkl is written.  fitNaN: whether this
\* scikit-learn fits on NaN features.
TrainRows(T) ==
    LET Keep(r) == ~IsNaN(r.fitness_score)
        kept == SelectSeq(T.rows, Keep)
    IN [k \in 1..Len(kept) |-> <<kept[k].match, kept[k].urgency, kept[k].fitness_score>>]

MinTrainRows == 2

\* mutant: a fit that takes whatever rows there are
train_fit_any(scoresF, fitNaN) ==
    IF ~scoresF.exists THEN [err |-> "FileNotFoundError", model |-> NoModel]
    ELSE [err |-> "", model |-> ModelOf(TrainRows(scoresF.table))]

train_fit(scoresF, fitNaN) ==
    IF ~scoresF.exists THEN [err |-> "FileNotFoundError", model |-> NoModel]
    ELSE IF scoresF.table.cols = {}
         THEN [err |-> "EmptyDataError", model |-> NoModel]
    ELSE LET data == TrainRows(scoresF.table)
         IN IF Len(data) < MinTrainRows
            THEN [err |-> "EmptySplitValueError", model |-> NoModel]
            ELSE IF ~fitNaN /\ \E k \in 1..Len(data) :
                                 IsNaN(data[k][1]) \/ IsNaN(data[k][2])
            THEN [err |-> "ValueError", model |-> NoModel]
            ELSE [err |-> "", model |-> ModelOf(data)]

\* sorted(...) of a set of names: the names of the model in string order
NameOrder == <<"", "A", "B", "Z", "d1", "d2", "zz">>
Rank(x) == CHOOSE k \in 1..Len(NameOrder) : NameOrder[k] = x
RECURSIVE sorted(_)
sorted(S) ==
    IF S = {} THEN << >>
    ELSE LET x == CHOOSE y \in S : \A z \in S : Rank(y) <= Rank(z)
         IN <<x>> \o sorted(S \ {x})

\* calculate_match_and_urgency(ngo_name, region_name) of generate_all_scores.py
calculate_match_and_urgency(needsT, ngosT, ngo, district) ==
    LET cats == Cats(needsT, ngosT)
        ngo_vec == ngosT.rows[Find(ngosT.rows, ngo)].v
        reg_vec == needsT.rows[Find(needsT.rows, district)].v
    IN [match |-> cosine_raw(ngo_vec, reg_vec, cats),
        urgency |-> urgency_of(reg_vec, cats)]

\* generate_all_scores.py: the module's load, then generate_all_scores().
\* A pair whose scoring raises is printed and skipped (lines 79-81).
generate_all_scores(needsF, ngosT, modelF, nanOk) ==
    LET ld == pickle_load(modelF)
        needsT == needsF.table
        unique_ngos == sorted(Keys(ngosT.rows))
        unique_districts == sorted(Keys(needsT.rows))
        n == Len(unique_ngos)
        m == Len(unique_districts)
        row(k) ==
            LET p == PairAt(k, m)
                mu == calculate_match_and_urgency(needsT, ngosT,
                          unique_ngos[p.i], unique_districts[p.j])
                pr == model_predict(ld.model, mu.match, mu.urgency, nanOk)
            IN [ok |-> pr.kind = "ok",
                r |-> ScoreRow(unique_ngos[p.i], unique_districts[p.j],
                               mu.match, mu.urgency, pr.fitness)]
        all == [k \in 1..(n * m) |-> row(k)]
        Ok(x) == x.ok
        kept == SelectSeq(all, Ok)
        results == [k \in 1..Len(kept) |-> kept[k].r]
    IN IF ld.err # "" THEN Raised(ld.err)
       ELSE IF ~needsF.exists THEN Raised("FileNotFoundError")
       ELSE IF results = << >> THEN RaisedAfter("KeyError", ScoreTable(results))
       ELSE Ran(ScoreTable(results))

\* ------------------------------------------------------------- need matrix
DamageCols == {"houses_destroyed_pct", "water_facilities_damaged_pct",
               "food_insecure_households_pct", "road_accessibility_score",
               "health_facilities_damaged_pct", "poverty_rate",
               "telecom_coverage_pct", "displaced_pop_pct",
               "public_infra_damaged_pct", "farmland_lost_pct"}
PopCols == {"pop_density"}

\* damage.merge(pop, on="district"): the inner join, in the order of damage
merge(damageT, popT) ==
    LET n == Len(damageT.rows)
        m == Len(popT.rows)
        pair(k) ==
            LET p == PairAt(k, m)
            IN [key |-> damageT.rows[p.i].key,
                other |-> popT.rows[p.j].key,
                v |-> damageT.rows[p.i].v @@ popT.rows[p.j].v]
        all == [k \in 1..(n * m) |-> pair(k)]
        Same(r) == r.key = r.other
        hit == SelectSeq(all, Same)
    IN [cols |-> damageT.cols \cup popT.cols,
        rows |-> [k \in 1..Len(hit) |-> [key |-> hit[k].key, v |-> hit[k].v]]]

Max(S) == CHOOSE x \in S : \A y \in S : y <= x
Min(S) == CHOOSE x \in S : \A y \in S : x <= y

\* x * y / z in floating point: NaN in, or 0/0, gives NaN
MulDiv(x, y, z) ==
    IF IsNaN(x) \/ IsNaN(y) \/ IsNaN(z) \/ z = 0 THEN NaN ELSE (x * y) \div z

\* mutant: raw need columns whose comms_need is the coverage itself
raw_needs_coverage(v, popmax) ==
    (Shelter :> v["houses_destroyed_pct"]) @@
    (Wash :> MulDiv(v["water_facilities_damaged_pct"], v["pop_density"], popmax)) @@
    (Food :> v["food_insecure_households_pct"]) @@
    (Logistics :> Percent - v["road_accessibility_score"]) @@
    (Rescue :> (v["houses_destroyed_pct"] * (Percent - v["road_accessibility_score"])) \div Percent) @@
    (Health :> v["health_facilities_damaged_pct"]) @@
    (Cash :> (v["poverty_rate"] * v["houses_destroyed_pct"]) \div Percent) @@
    (Comms :> v["telecom_coverage_pct"]) @@
    (Psych :> v["displaced_pop_pct"]) @@
    (Infra :> v["public_infra_damaged_pct"]) @@
    (Agri :> v["farmland_lost_pct"])

\* lines 8-18: the eleven raw need columns of one joined row; popmax is
\* df["pop_density"].max()
raw_needs(v, popmax) ==
    (Shelter :> v["houses_destroyed_pct"]) @@
    (Wash :> MulDiv(v["water_facilities_damaged_pct"], v["pop_density"], popmax)) @@
    (Food :> v["food_insecure_households_pct"]) @@
    (Logistics :> Percent - v["road_accessibility_score"]) @@
    (Rescue :> (v["houses_destroyed_pct"] * (Percent - v["road_accessibility_score"])) \div Percent) @@
    (Health :> v["health_facilities_damaged_pct"]) @@
    (Cash :> (v["poverty_rate"] * v["houses_destroyed_pct"]) \div Percent) @@
    (Comms :> Percent - v["telecom_coverage_pct"]) @@
    (Psych :> v["displaced_pop_pct"]) @@
    (Infra :> v["public_infra_damaged_pct"]) @@
    (Agri :> v["farmland_lost_pct"])

\* MinMaxScaler((0,100)).fit_transform on one column: col is the sequence
\* of the column's values, x one of them.  NaN entries are ignored by the
\* fit and stay NaN; a zero range is replaced by 1.
minmax(col, x) ==
    LET vals == {col[k] : k \in 1..Len(col)} \ {NaN}
    IN IF IsNaN(x) \/ vals = {} THEN NaN
       ELSE IF Max(vals) = Min(vals) THEN (x - Min(vals)) * Percent
       ELSE ((x - Min(vals)) * Percent) \div (Max(vals) - Min(vals))

\* mutant: a normalizer that writes the header alone when there is no row
build_need_matrix_lenient(damageT, popT) ==
    LET df == merge(damageT, popT)
        n == Len(df.rows)
        pops == {df.rows[k].v["pop_density"] : k \in 1..n}
        popmax == IF pops = {} THEN NaN ELSE Max(pops)
        raw == [k \in 1..n |-> raw_needs(df.rows[k].v, popmax)]
        column(c) == [k \in 1..n |-> raw[k][c]]
        scaled(k) == [c \in NeedCols |-> minmax(column(c), raw[k][c])]
    IN IF ~(DamageCols \subseteq damageT.cols /\ PopCols \subseteq popT.cols)
       THEN Raised("KeyError")
       ELSE Ran([cols |-> df.cols \cup NeedCols,
                 rows |-> [k \in 1..n |->
                             [key |-> df.rows[k].key,
                              v |-> scaled(k) @@ df.rows[k].v]]])

\* build_need_matrix.py, lines 4-39
build_need_matrix(damageT, popT) ==
    LET df == merge(damageT, popT)
        n == Len(df.rows)
        pops == {df.rows[k].v["pop_density"] : k \in 1..n}
        popmax == IF pops = {} THEN NaN ELSE Max(pops)
        raw == [k \in 1..n |-> raw_needs(df.rows[k].v, popmax)]
        column(c) == [k \in 1..n |-> raw[k][c]]
        scaled(k) == [c \in NeedCols |-> minmax(column(c), raw[k][c])]
    IN IF ~(DamageCols \subseteq damageT.cols /\ PopCols \subseteq popT.cols)
       THEN Raised("KeyError")
       ELSE IF n = 0 THEN Raised("EmptyValueError")
       ELSE Ran([cols |-> df.cols \cup NeedCols,
                 rows |-> [k \in 1..n |->
                             [key |-> df.rows[k].key,
                              v |-> scaled(k) @@ df.rows[k].v]]])

\* ------------------------------------------------------------- blend scorer
\* generate_ngo_scores.py scores from the raw damage table and a long-format
\* capability table (ngo_name, category, capacity_score).  The long table is
\* carried as its pivot: the wide table whose column c holds the
\* capacity_score of category c, a category without rows being a column the
\* wide table lacks.
\* lines 29-36, then round(urgency * 100, 2): in units of 1/Percent of the
\* written number
blend_urgency(v) ==
    20 * v["houses_destroyed_pct"] + 15 * v["health_facilities_damaged_pct"]
    + 15 * v["water_facilities_damaged_pct"] + 20 * v["food_insecure_households_pct"]
    + 15 * v["displaced_pop_pct"] + 15 * (Percent - v["road_accessibility_score"])

\* the five (damage metric, category) tests of lines 42-75
BlendTests ==
    {<<"health_facilities_damaged_pct", Health>>,
     <<"water_facilities_damaged_pct", Wash>>,
     <<"food_insecure_households_pct", Food>>,
     <<"houses_destroyed_pct", Shelter>>,
     <<"public_infra_damaged_pct", Infra>>}
HighDamage == 50

\* lines 39-81, then round(match_score * 100, 2): in units of 1/Percent of
\* the written number
blend_match(v, ngosT, i) ==
    LET high == {t \in BlendTests : v[t[1]] > HighDamage}
        hits == {t \in high : t[2] \in ngosT.cols /\ ngosT.rows[i].v[t[2]] > 0}
    IN IF high = {} THEN 50 * Percent
       ELSE (Percent * Percent * Cardinality(hits)) \div Cardinality(high)

\* line 84, then round(fitness_score, 2): in units of 1/(10*Percent) of the
\* written number
blend_fitness(m, u) == (6 * m + 4 * u)

\* generate_ngo_scores.py, lines 9-96
generate_ngo_scores(damageT, ngosT) ==
    LET ngos_ == sorted(Keys(ngosT.rows))
        districts == sorted(Keys(damageT.rows))
        n == Len(ngos_)
        m == Len(districts)
        row(k) ==
            LET p == PairAt(k, m)
                i == Find(ngosT.rows, ngos_[p.i])
                district_data == damageT.rows[Find(damageT.rows, districts[p.j])].v
                urgency == blend_urgency(district_data)
                match_score == blend_match(district_data, ngosT, i)
            IN ScoreRow(ngos_[p.i], districts[p.j], match_score, urgency,
                        blend_fitness(match_score, urgency))
    IN IF ~(DamageCols \subseteq damageT.cols) /\ n * m > 0
       THEN Raised("KeyError")
       ELSE Ran(ScoreTable([k \in 1..(n * m) |-> row(k)]))

\* ------------------------------------------------------------- state
\* The scripts and the readers work on one directory tree (locally the
\* working directory, on Modal the volume mounted at /workspace, whose
\* changes are committed in the background as well as by vol.commit()): a
\* write is seen by whoever opens the file next.
VARIABLES
    damage,      \* data/pdna_district_damage.csv
    pop,         \* data/population_density.csv
    ngos,        \* data/ngo_capabilities.csv
    needsFile,   \* outputs/regional_needs_2015.csv
    scoresFile,  \* the scored-pairs table, ngo_region_scores.csv
    modelFile,   \* outputs/model.pkl
    orch,        \* run_pipeline: [status, next, runs]
    st,          \* the three pipeline functions: stage -> [pc, model, snap]
    readers,     \* inference requests in flight: reader -> [pc, path, ...]
    trained,     \* history: a training run has written a whole model.pkl
    qres,        \* the outcome of the last query made of a loaded module
    sres,        \* the outcome of the last script run by hand
    args,        \* the vectors handed to cosine
    ret          \* what cosine returned for them, both ways round

vars == <<damage, pop, ngos, needsFile, scoresFile, modelFile, orch, st,
          readers, trained, qres, sres, args, ret>>

inputs == <<damage, pop, ngos>>
files == <<needsFile, scoresFile, modelFile>>

\* run_pipeline calls the three functions in this order
Pipeline == <<"build_matrix", "compute_fitness", "train_model">>
Stages == {Pipeline[k] : k \in 1..Len(Pipeline)}

Snapshot == [needs |-> needsFile, scores |-> scoresFile, model |-> modelFile]
NoSnapshot == [needs |-> Absent, scores |-> Absent, model |-> NoPickle]
IdleStage ==
    [pc |-> "idle", err |-> "", model |-> NoModel, snap |-> NoSnapshot, starts |-> 0]
IdleReader ==
    [pc |-> "idle", path |-> "", ngo |-> "", district |-> "",
     needs |-> Absent, noArtifact |-> FALSE, res |-> Failed("")]
NoQuery == [path |-> "", ngo |-> "", district |-> "", res |-> Failed("")]
NoScript == [script |-> "", rc |-> 0, err |-> ""]
NoCall == [a |-> << >>, b |-> << >>, cats |-> {}]
NoReturn == [fn |-> "", ab |-> 0, ba |-> 0]

\* ------------------------------------------------------------- inputs
\* The tables come from outside the program.  The model draws them from
\* these families.
USeq(S, n) == UNION {[1..k -> S] : k \in 0..n}

NgoNames == {"A", "B"}
DistrictNames == {"d1", "d2"}
\* names asked for: one in no table, and "" for a missing field
\* and one that differs from a stored name in case and outer whitespace
AskNgo == {"A", "Z", "", " a "}
AskDistrict == {"d1", "zz", "", " D1"}

\* str(name).strip().lower() on the names of the model
normalize_district_name(name) ==
    CASE name \in {"A", " a "} -> "a"
      [] name = "B" -> "b"
      [] name = "Z" -> "z"
      [] name \in {"d1", " D1"} -> "d1"
      [] OTHER -> name

CapLevels == {0, 1}
NeedLevels == {0, Percent}
RawLevels == {20, 80}
PopLevels == {0, 10, 20}

NgoColSets == {{"NGO", CapacityScore}, {"NGO", Shelter}, {"NGO", Shelter, Wash}}
\* the values of a column no scorer reads do not vary
CapLevelsOf(c) == IF c \in NeedCols THEN CapLevels ELSE {1}
CapRows(cs) ==
    {f \in [cs \ {"NGO"} -> CapLevels] : \A c \in DOMAIN f : f[c] \in CapLevelsOf(c)}
NgoTables(n) ==
    UNION {{[cols |-> cs, rows |-> rs] :
              rs \in USeq([key : NgoNames, v : CapRows(cs)], n)} :
           cs \in NgoColSets}

\* need rows: Shelter and Wash vary, the other nine columns are 0
NeedRowOf(a, b) ==
    [c \in NeedCols |-> IF c = Shelter THEN a ELSE IF c = Wash THEN b ELSE 0]
NeedTables(n) ==
    {[cols |-> NeedCols \cup {"district"}, rows |-> rs] :
       rs \in USeq([key : DistrictNames,
                    v : {NeedRowOf(a, b) : a \in NeedLevels, b \in NeedLevels}], n)}

\* raw damage rows: five metrics take x, the other five y
XCols == {"houses_destroyed_pct", "food_insecure_households_pct",
          "poverty_rate", "telecom_coverage_pct", "public_infra_damaged_pct"}
Profile(x, y) == [c \in DamageCols |-> IF c \in XCols THEN x ELSE y]
DamageTables(n) ==
    {[cols |-> DamageCols \cup {"district"}, rows |-> rs] :
       rs \in USeq([key : DistrictNames,
                    v : {Profile(x, y) : x \in RawLevels, y \in RawLevels}], n)}
PopTables(n) ==
    {[cols |-> PopCols \cup {"district"}, rows |-> rs] :
       rs \in USeq([key : DistrictNames, v : [PopCols -> PopLevels]], n)}

\* the inputs of the pipeline runs
Row(k, v) == [key |-> k, v |-> v]
PipeDamage ==
    [cols |-> DamageCols \cup {"district"},
     rows |-> <<Row("d1", Profile(80, 20)), Row("d2", Profile(20, 80))>>]
PopTable(rows) == [cols |-> PopCols \cup {"district"}, rows |-> rows]
PopRow(k, x) == Row(k, [c \in PopCols |-> x])
PipePops ==
    {PopTable(<<PopRow("d1", 10), PopRow("d2", 20)>>),
     PopTable(<<PopRow("d1", 0), PopRow("d2", 0)>>),
     PopTable(<< >>)}
PipeNgos ==
    {[cols |-> {"NGO", Shelter, Wash},
      rows |-> <<Row("A", (Shelter :> 1) @@ (Wash :> 0)),
                 Row("B", (Shelter :> 1) @@ (Wash :> 1))>>],
     [cols |-> {"NGO", CapacityScore},
      rows |-> <<Row("A", (CapacityScore :> 1))>>]}

\* the outputs of an earlier run of the pipeline, on other inputs
OldPop == PopTable(<<PopRow("d1", 20), PopRow("d2", 10)>>)
OldNgos == [cols |-> {"NGO", Shelter}, rows |-> <<Row("A", (Shelter :> 1))>>]
OldNeeds == FileOf(build_need_matrix(PipeDamage, OldPop).table)
OldScores == FileOf(compute_fitness(OldNeeds, OldNgos).table)
OldModel == train_fit(OldScores, TRUE).model

\* ------------------------------------------------------------- queries
\* One call of a query path on the files as they are.
Answer(path, ngo, district, nanOk) ==
    CASE path = "predict_fitness" ->
           predict_module(needsFile, ngos, modelFile, ngo, district, nanOk)
      [] path = "cli" ->
           predict_cli(needsFile, ngos, modelFile, ngo, district, nanOk)
      [] path = "http" ->
           predict(needsFile, ngos, modelFile, ngo, district, nanOk)
QueryPaths == {"predict_fitness", "cli", "http"}

\* whether model.predict is given a NaN by this call: only then does the
\* scikit-learn in use decide the outcome
Query(path, ngo, district) ==
    /\ qres = NoQuery /\ sres = NoScript
    /\ \E nanOk \in BOOLEAN :
         /\ qres' = [path |-> path, ngo |-> ngo, district |-> district,
                     res |-> Answer(path, ngo, district, nanOk)]
         /\ nanOk => /\ qres'.res.predicted
                     /\ IsNaN(qres'.res.match) \/ IsNaN(qres'.res.urgency)
    /\ UNCHANGED <<args, ret, inputs, files, orch, st, readers, trained, sres>>

\* python compute_fitness.py, run by hand
RunComputeFitness ==
    LET r == compute_fitness(needsFile, ngos)
    IN /\ qres = NoQuery /\ sres = NoScript
       /\ sres' = [script |-> "compute_fitness", rc |-> r.rc, err |-> r.err]
       /\ scoresFile' = IF r.wrote THEN FileOf(r.table) ELSE scoresFile
       /\ UNCHANGED <<args, ret, inputs, needsFile, modelFile, orch, st, readers, trained, qres>>

\* python generate_all_scores.py, run by hand
RunGenerateAllScores ==
    /\ qres = NoQuery /\ sres = NoScript
    /\ \E nanOk \in BOOLEAN :
         LET r == generate_all_scores(needsFile, ngos, modelFile, nanOk)
         IN /\ sres' = [script |-> "generate_all_scores", rc |-> r.rc, err |-> r.err]
            /\ scoresFile' = IF r.wrote THEN FileOf(r.table) ELSE scoresFile
            /\ nanOk => r.wrote /\ \E k \in 1..Len(r.table.rows) :
                            IsNaN(r.table.rows[k].match) \/ IsNaN(r.table.rows[k].urgency)
    /\ UNCHANGED <<args, ret, inputs, needsFile, modelFile, orch, st, readers, trained, qres>>

InitQuery ==
    /\ damage = NoTable
    /\ pop = NoTable
    /\ ngos \in NgoTables(MaxNgoRows)
    /\ needsFile \in {FileOf(T) : T \in NeedTables(MaxNeedRows)}
    /\ scoresFile = Absent
    /\ modelFile \in {NoPickle, Pickled(OldModel, PickleChunks)}
    /\ orch = [status |-> "idle", next |-> 0, runs |-> 0]
    /\ st = [s \in Stages |-> IdleStage]
    /\ readers = [r \in 1..NReaders |-> IdleReader]
    /\ trained = Complete(modelFile)
    /\ qres = NoQuery
    /\ sres = NoScript
    /\ args = NoCall
    /\ ret = NoReturn

NextQuery ==
    \/ \E path \in QueryPaths, ngo \in AskNgo, district \in AskDistrict :
         Query(path, ngo, district)
    \/ RunComputeFitness
    \/ RunGenerateAllScores

SpecQuery == InitQuery /\ [][NextQuery]_vars

\* ------------------------------------------------------------- batch
\* The batch scorers run by hand on tables of several rows.
\* The need matrices of the batch runs: up to two districts, whose rows
\* vary in Shelter and Wash; a NaN is what a missing cell of the raw data
\* leaves in the matrix.
BatchNeedRows ==
    {NeedRowOf(0, 0), NeedRowOf(Percent, 0), NeedRowOf(0, Percent),
     NeedRowOf(Percent, Percent), NeedRowOf(Percent, NaN)}
BatchNeedTables ==
    {[cols |-> NeedCols \cup {"district"}, rows |-> rs] :
       rs \in {<< >>}
              \cup {<<Row("d1", a)>> : a \in BatchNeedRows}
              \cup {<<Row("d1", a), Row("d2", b)>> :
                      a \in BatchNeedRows, b \in BatchNeedRows}}

InitBatch ==
    /\ damage = NoTable
    /\ pop = NoTable
    /\ ngos \in NgoTables(MaxBatchNgos)
    /\ needsFile \in {FileOf(T) : T \in BatchNeedTables}
    /\ scoresFile = Absent
    /\ modelFile = Pickled(OldModel, PickleChunks)
    /\ orch = [status |-> "idle", next |-> 0, runs |-> 0]
    /\ st = [s \in Stages |-> IdleStage]
    /\ readers = [r \in 1..NReaders |-> IdleReader]
    /\ trained = TRUE
    /\ qres = NoQuery
    /\ sres = NoScript
    /\ args = NoCall
    /\ ret = NoReturn

NextBatch ==
    \/ RunComputeFitness
    \/ RunGenerateAllScores

SpecBatch == InitBatch /\ [][NextBatch]_vars

\* ------------------------------------------------------------- producers
\* The three scripts that write a scored-pairs table, each run by hand on
\* the same districts: the need matrix is the one build_need_matrix.py
\* makes of the damage table.
ProducerDamage ==
    {[cols |-> DamageCols \cup {"district"},
      rows |-> <<Row("d1", Profile(a, b)), Row("d2", Profile(c, d))>>] :
       a \in RawLevels, b \in RawLevels, c \in RawLevels, d \in RawLevels}

\* python generate_ngo_scores.py, run by hand
RunGenerateNgoScores ==
    LET r == generate_ngo_scores(damage, ngos)
    IN /\ qres = NoQuery /\ sres = NoScript
       /\ sres' = [script |-> "generate_ngo_scores", rc |-> r.rc, err |-> r.err]
       /\ scoresFile' = IF r.wrote THEN FileOf(r.table) ELSE scoresFile
       /\ UNCHANGED <<args, ret, inputs, needsFile, modelFile, orch, st, readers, trained, qres>>

InitProducers ==
    /\ damage \in ProducerDamage
    /\ pop = OldPop
    /\ ngos \in NgoTables(MaxBatchNgos)
    /\ needsFile = FileOf(build_need_matrix(damage, pop).table)
    /\ scoresFile = Absent
    /\ modelFile = Pickled(OldModel, PickleChunks)
    /\ orch = [status |-> "idle", next |-> 0, runs |-> 0]
    /\ st = [s \in Stages |-> IdleStage]
    /\ readers = [r \in 1..NReaders |-> IdleReader]
    /\ trained = TRUE
    /\ qres = NoQuery
    /\ sres = NoScript
    /\ args = NoCall
    /\ ret = NoReturn

NextProducers ==
    \/ RunComputeFitness
    \/ RunGenerateAllScores
    \/ RunGenerateNgoScores

SpecProducers == InitProducers /\ [][NextProducers]_vars

\* ------------------------------------------------------------- cosine
\* The two cosine functions applied to vectors of equal length.  A vector is
\* indexed by the first categories of the need matrix.
CatSeq == <<Shelter, Wash, Food, Logistics, Rescue, Health, Cash, Comms,
            Psych, Infra, Agri>>
FirstCats(n) == {CatSeq[k] : k \in 1..n}
VecLevels == {0 - 1, 0, 1, 2}
\* the vector of eleven components whose first is k
Unit(k) == [c \in NeedCols |-> IF c = Shelter THEN k ELSE 0]
CosineArgs ==
    UNION {[a : [FirstCats(n) -> VecLevels], b : [FirstCats(n) -> VecLevels],
            cats : {FirstCats(n)}] : n \in 1..MaxVecLen}
    \cup {[a |-> Unit(1), b |-> Unit(Percent), cats |-> NeedCols]}
CosineFns == {"compute_fitness.cosine", "predict.cosine"}

\* x == y on two floats: a NaN equals nothing
FloatEq(x, y) == ~IsNaN(x) /\ ~IsNaN(y) /\ x = y

cosine(fn, a, b, cats) ==
    IF fn = "compute_fitness.cosine" THEN cosine_guarded(a, b, cats)
    ELSE cosine_raw(a, b, cats)

ApplyCosine(fn) ==
    /\ ret = NoReturn
    /\ ret' = [fn |-> fn,
               ab |-> cosine(fn, args.a, args.b, args.cats),
               ba |-> cosine(fn, args.b, args.a, args.cats)]
    /\ UNCHANGED <<args, inputs, files, orch, st, readers, trained, qres, sres>>

InitCosine ==
    /\ damage = NoTable
    /\ pop = NoTable
    /\ ngos = NoTable
    /\ needsFile = Absent
    /\ scoresFile = Absent
    /\ modelFile = NoPickle
    /\ orch = [status |-> "idle", next |-> 0, runs |-> 0]
    /\ st = [s \in Stages |-> IdleStage]
    /\ readers = [r \in 1..NReaders |-> IdleReader]
    /\ trained = FALSE
    /\ qres = NoQuery
    /\ sres = NoScript
    /\ args \in CosineArgs
    /\ ret = NoReturn

NextCosine == \E fn \in CosineFns : ApplyCosine(fn)

SpecCosine == InitCosine /\ [][NextCosine]_vars

\* ------------------------------------------------------------- pipeline
\* mutant: a call that returns as soon as the function has been started
remote_spawned(k) == IF k = 0 THEN TRUE ELSE st[Pipeline[k]].pc # "idle"

\* run_pipeline, lines 53-58: f.remote() returns when the function f has
\* returned; position k of Pipeline may be called once call k-1 has come back
remote_returned(k) == IF k = 0 THEN TRUE ELSE st[Pipeline[k]].pc = "returned"

\* modal run app.py: run_pipeline starts
RunPipeline ==
    /\ orch.status \in {"idle", "complete", "aborted"}
    /\ orch.runs < MaxRuns
    /\ orch' = [status |-> "running", next |-> 1, runs |-> orch.runs + 1]
    /\ st' = [s \in Stages |-> IdleStage]
    /\ UNCHANGED <<args, ret, inputs, files, readers, trained, qres, sres>>

\* run_pipeline reaches its next call
Call(k) ==
    /\ orch.status = "running"
    /\ orch.next = k
    /\ remote_returned(k - 1)
    /\ \A s \in Stages : st[s].pc # "failed"
    /\ orch' = [orch EXCEPT !.next = k + 1]
    /\ st' = [st EXCEPT ![Pipeline[k]] =
                [IdleStage EXCEPT !.pc = "running", !.snap = Snapshot,
                                  !.starts = st[Pipeline[k]].starts + 1]]
    /\ UNCHANGED <<args, ret, inputs, files, readers, trained, qres, sres>>

\* the exception of a failed function leaves run_pipeline
Abort ==
    /\ orch.status = "running"
    /\ \E s \in Stages : st[s].pc = "failed"
    /\ orch' = [orch EXCEPT !.status = "aborted"]
    /\ UNCHANGED <<args, ret, inputs, files, st, readers, trained, qres, sres>>

\* run_pipeline returns "pipeline complete"
Finish ==
    /\ orch.status = "running"
    /\ orch.next = Len(Pipeline) + 1
    /\ remote_returned(Len(Pipeline))
    /\ orch' = [orch EXCEPT !.status = "complete"]
    /\ UNCHANGED <<args, ret, inputs, files, st, readers, trained, qres, sres>>

\* how a function ends on its script's return code: check=True raises on
\* a non-zero one, else vol.commit() and return
Ended(s, rc, err) ==
    [st EXCEPT ![s].pc = IF rc = 0 THEN "returned" ELSE "failed", ![s].err = err]

\* build_matrix(): python build_need_matrix.py
BuildMatrix ==
    /\ st["build_matrix"].pc = "running"
    /\ LET r == build_need_matrix(damage, pop)
       IN /\ needsFile' = IF r.wrote THEN FileOf(r.table) ELSE needsFile
          /\ st' = Ended("build_matrix", r.rc, r.err)
    /\ UNCHANGED <<args, ret, inputs, scoresFile, modelFile, orch, readers, trained, qres, sres>>

\* compute_fitness(): python compute_fitness.py
ComputeFitness ==
    /\ st["compute_fitness"].pc = "running"
    /\ LET r == compute_fitness(needsFile, ngos)
       IN /\ scoresFile' = IF r.wrote THEN FileOf(r.table) ELSE scoresFile
          /\ st' = Ended("compute_fitness", r.rc, r.err)
    /\ UNCHANGED <<args, ret, inputs, needsFile, modelFile, orch, readers, trained, qres, sres>>

\* train_model(): python train_model.py, lines 5-15 (read, split, fit)
TrainFit ==
    /\ st["train_model"].pc = "running"
    /\ \E fitNaN \in BOOLEAN :
         LET r == train_fit(scoresFile, fitNaN)
         IN /\ fitNaN \/ r.err = "ValueError"
            /\ st' = IF r.err # "" THEN Ended("train_model", 1, r.err)
                     ELSE [st EXCEPT !["train_model"].pc = "fitted",
                                     !["train_model"].model = r.model]
    /\ UNCHANGED <<args, ret, inputs, files, orch, readers, trained, qres, sres>>

\* line 17: open("outputs/model.pkl","wb") creates the file or cuts it to
\* nothing
TrainOpen ==
    /\ st["train_model"].pc = "fitted"
    /\ modelFile' = Pickled(st["train_model"].model, 0)
    /\ st' = [st EXCEPT !["train_model"].pc = "writing"]
    /\ UNCHANGED <<args, ret, inputs, needsFile, scoresFile, orch, readers, trained, qres, sres>>

\* line 17: pickle.dump writes the next part; after the last the script
\* ends and the function returns
TrainWrite ==
    /\ st["train_model"].pc = "writing"
    /\ modelFile.written < PickleChunks
    /\ modelFile' = Pickled(st["train_model"].model, modelFile.written + 1)
    /\ IF modelFile.written + 1 = PickleChunks
       THEN /\ st' = Ended("train_model", 0, "")
            /\ trained' = TRUE
       ELSE UNCHANGED <<st, trained>>
    /\ UNCHANGED <<args, ret, inputs, needsFile, scoresFile, orch, readers, qres, sres>>

\* a function's timeout (600 s) ends its script where it stands
Timeout(s) ==
    /\ st[s].pc \in {"running", "fitted", "writing"}
    /\ st' = Ended(s, 1, "Timeout")
    /\ UNCHANGED <<args, ret, inputs, files, orch, readers, trained, qres, sres>>

\* ------------------------------------------------------------- readers
\* An inference request against the files while the pipeline runs: it opens
\* model.pkl, then loads it and answers.
PipePaths == {"http", "cli"}
PipeAskNgo == {"A"}

ReaderStart(r, path, ngo, district) ==
    /\ readers[r].pc = "idle"
    /\ r > 1 => readers[r - 1].pc # "idle"
    /\ LET fails == \/ ~modelFile.exists
                    \/ path = "http" /\ ~needsFile.exists
       IN readers' = [readers EXCEPT ![r] =
            [pc |-> IF fails THEN "done" ELSE "opened",
             path |-> path, ngo |-> ngo, district |-> district,
             needs |-> IF path = "http" THEN needsFile ELSE Absent,
             noArtifact |-> ~modelFile.exists,
             res |-> IF fails THEN Failed("FileNotFoundError") ELSE Failed("")]]
    /\ UNCHANGED <<args, ret, inputs, files, orch, st, trained, qres, sres>>

ReaderFinish(r) ==
    /\ readers[r].pc = "opened"
    /\ \E nanOk \in BOOLEAN :
         LET q == readers[r]
             res == IF q.path = "http"
                    THEN predict(q.needs, ngos, modelFile, q.ngo, q.district, nanOk)
                    ELSE predict_cli(needsFile, ngos, modelFile, q.ngo, q.district, nanOk)
         IN /\ readers' = [readers EXCEPT ![r].pc = "done", ![r].res = res]
            /\ nanOk => /\ readers'[r].res.predicted
                        /\ IsNaN(readers'[r].res.match) \/ IsNaN(readers'[r].res.urgency)
    /\ UNCHANGED <<args, ret, inputs, files, orch, st, trained, qres, sres>>

Init ==
    /\ damage = PipeDamage
    /\ pop \in PipePops
    /\ ngos \in PipeNgos
    /\ \E earlier \in BOOLEAN :
         /\ needsFile = IF earlier THEN OldNeeds ELSE Absent
         /\ scoresFile = IF earlier THEN OldScores ELSE Absent
         /\ modelFile = IF earlier THEN Pickled(OldModel, PickleChunks) ELSE NoPickle
    /\ orch = [status |-> "idle", next |-> 0, runs |-> 0]
    /\ st = [s \in Stages |-> IdleStage]
    /\ readers = [r \in 1..NReaders |-> IdleReader]
    /\ trained = Complete(modelFile)
    /\ qres = NoQuery
    /\ sres = NoScript
    /\ args = NoCall
    /\ ret = NoReturn

Next ==
    \/ RunPipeline
    \/ \E k \in 1..Len(Pipeline) : Call(k)
    \/ Abort
    \/ Finish
    \/ BuildMatrix
    \/ ComputeFitness
    \/ TrainFit
    \/ TrainOpen
    \/ TrainWrite
    \/ \E s \in Stages : Timeout(s)
    \/ \E r \in 1..NReaders, path \in PipePaths, ngo \in PipeAskNgo :
         ReaderStart(r, path, ngo, "d1")
    \/ \E r \in 1..NReaders : ReaderFinish(r)

Spec == Init /\ [][Next]_vars

\* ------------------------------------------------------------- normalizer
\* python build_need_matrix.py, run by hand on the input tables
RunBuildNeedMatrix ==
    /\ sres = NoScript
    /\ LET r == build_need_matrix(damage, pop)
       IN /\ sres' = [script |-> "build_need_matrix", rc |-> r.rc, err |-> r.err]
          /\ needsFile' = IF r.wrote THEN FileOf(r.table) ELSE needsFile
    /\ UNCHANGED <<args, ret, inputs, scoresFile, modelFile, orch, st, readers, trained, qres>>

InitNorm ==
    /\ damage \in DamageTables(MaxDamageRows)
    /\ pop \in PopTables(MaxPopRows)
    /\ ngos = NoTable
    /\ needsFile = Absent
    /\ scoresFile = Absent
    /\ modelFile = NoPickle
    /\ orch = [status |-> "idle", next |-> 0, runs |-> 0]
    /\ st = [s \in Stages |-> IdleStage]
    /\ readers = [r \in 1..NReaders |-> IdleReader]
    /\ trained = FALSE
    /\ qres = NoQuery
    /\ sres = NoScript
    /\ args = NoCall
    /\ ret = NoReturn

NextNorm == RunBuildNeedMatrix

SpecNorm == InitNorm /\ [][NextNorm]_vars

\* ------------------------------------------------------------- stages by hand
\* Each stage's script run by hand, any number of times up to MaxStarts, on
\* input tables that may be replaced between two runs.  st[s] keeps the
\* last run of stage s: how it ended, and in snap what it read.
MaxStarts == 2

Found ==
    [damage |-> damage, pop |-> pop, ngos |-> ngos,
     needs |-> needsFile, scores |-> scoresFile, model |-> modelFile]

\* what a stage's script reads
Reads(s, f) ==
    CASE s = "build_matrix" -> <<f.damage, f.pop>>
      [] s = "compute_fitness" -> <<f.needs, f.ngos>>
      [] s = "train_model" -> <<f.scores>>
\* the file a stage's script writes
Output(s, f) ==
    CASE s = "build_matrix" -> f.needs
      [] s = "compute_fitness" -> f.scores
      [] s = "train_model" -> f.model

\* mutant: a write that adds its rows to the file already there
to_csv_append(old, r) ==
    IF ~r.wrote THEN old
    ELSE IF ~old.exists THEN FileOf(r.table)
    ELSE FileOf([cols |-> old.table.cols \cup r.table.cols,
                 rows |-> old.table.rows \o r.table.rows])

\* df.to_csv(path, index=False) at the end of a script: the file is
\* replaced; a script that raised before it leaves the file as it was
to_csv(old, r) == IF r.wrote THEN FileOf(r.table) ELSE old

\* of what is there, the part a stage's script reads
FoundBy(s) ==
    CASE s = "build_matrix" ->
           [damage |-> damage, pop |-> pop, ngos |-> NoTable,
            needs |-> Absent, scores |-> Absent, model |-> NoPickle]
      [] s = "compute_fitness" ->
           [damage |-> NoTable, pop |-> NoTable, ngos |-> ngos,
            needs |-> needsFile, scores |-> Absent, model |-> NoPickle]
      [] s = "train_model" ->
           [damage |-> NoTable, pop |-> NoTable, ngos |-> NoTable,
            needs |-> Absent, scores |-> scoresFile, model |-> NoPickle]

HandRun(s, rc, err) ==
    [st EXCEPT ![s] = [pc |-> IF rc = 0 THEN "returned" ELSE "failed",
                       err |-> err, model |-> NoModel, snap |-> FoundBy(s),
                       starts |-> st[s].starts + 1]]

\* python build_need_matrix.py
StageBuildNeedMatrix ==
    /\ st["build_matrix"].starts < MaxStarts
    /\ LET r == build_need_matrix(damage, pop)
       IN /\ needsFile' = to_csv(needsFile, r)
          /\ st' = HandRun("build_matrix", r.rc, r.err)
    /\ UNCHANGED <<args, ret, inputs, scoresFile, modelFile, orch, readers, trained, qres, sres>>

\* python compute_fitness.py
StageComputeFitness ==
    /\ st["compute_fitness"].starts < MaxStarts
    /\ LET r == compute_fitness(needsFile, ngos)
       IN /\ scoresFile' = to_csv(scoresFile, r)
          /\ st' = HandRun("compute_fitness", r.rc, r.err)
    /\ UNCHANGED <<args, ret, inputs, needsFile, modelFile, orch, readers, trained, qres, sres>>

\* python train_model.py, run to its end: lines 5-17
StageTrainModel ==
    /\ st["train_model"].starts < MaxStarts
    /\ \E fitNaN \in BOOLEAN :
         LET r == train_fit(scoresFile, fitNaN)
         IN /\ fitNaN \/ r.err = "ValueError"
            /\ modelFile' = IF r.err = "" THEN Pickled(r.model, PickleChunks)
                            ELSE modelFile
            /\ trained' = (trained \/ r.err = "")
            /\ st' = HandRun("train_model", IF r.err = "" THEN 0 ELSE 1, r.err)
    /\ UNCHANGED <<args, ret, inputs, needsFile, scoresFile, orch, readers, qres, sres>>

\* the input tables of the hand runs: the pipeline's, a damage table
\* without one of the metrics, a damage table without rows, a population
\* table without the density
StageDamage ==
    {PipeDamage,
     [cols |-> (DamageCols \ {"farmland_lost_pct"}) \cup {"district"},
      rows |-> <<Row("d1", [c \in DamageCols \ {"farmland_lost_pct"} |-> 80])>>],
     [cols |-> DamageCols \cup {"district"}, rows |-> << >>]}
StagePops ==
    PipePops \cup
    {[cols |-> {"district"}, rows |-> <<Row("d1", [c \in {} |-> 0])>>]}

\* data/population_density.csv is replaced by another table
ReplacePop(p) ==
    /\ p # pop
    /\ pop' = p
    /\ UNCHANGED <<args, ret, damage, ngos, files, orch, st, readers, trained, qres, sres>>

InitStages ==
    /\ damage \in StageDamage
    /\ pop \in StagePops
    /\ ngos \in PipeNgos
    /\ \E earlier \in BOOLEAN :
         /\ needsFile = IF earlier THEN OldNeeds ELSE Absent
         /\ scoresFile = IF earlier THEN OldScores ELSE Absent
         /\ modelFile = IF earlier THEN Pickled(OldModel, PickleChunks) ELSE NoPickle
    /\ orch = [status |-> "idle", next |-> 0, runs |-> 0]
    /\ st = [s \in Stages |-> IdleStage]
    /\ readers = [r \in 1..NReaders |-> IdleReader]
    /\ trained = Complete(modelFile)
    /\ qres = NoQuery
    /\ sres = NoScript
    /\ args = NoCall
    /\ ret = NoReturn

NextStages ==
    \/ StageBuildNeedMatrix
    \/ StageComputeFitness
    \/ StageTrainModel
    \/ \E p \in StagePops : ReplacePop(p)

SpecStages == InitStages /\ [][NextStages]_vars

\* ------------------------------------------------------------- scorer paths
\* The query paths and the batch scorers on the same pair of tables, the
\* capability table with its headers as the need matrix spells them or
\* with the punctuation of the category's full name.
PunctNgoTables ==
    {[cols |-> {"NGO", Shelter, RescuePunct},
      rows |-> <<Row("A", (Shelter :> s) @@ (RescuePunct :> r))>>] :
       s \in CapLevels, r \in CapLevels}

InitPaths ==
    /\ damage = NoTable
    /\ pop = NoTable
    /\ ngos \in NgoTables(MaxNgoRows) \cup PunctNgoTables
    /\ needsFile \in {FileOf(T) : T \in NeedTables(MaxNeedRows)}
    /\ scoresFile = Absent
    /\ modelFile = Pickled(OldModel, PickleChunks)
    /\ orch = [status |-> "idle", next |-> 0, runs |-> 0]
    /\ st = [s \in Stages |-> IdleStage]
    /\ readers = [r \in 1..NReaders |-> IdleReader]
    /\ trained = TRUE
    /\ qres = NoQuery
    /\ sres = NoScript
    /\ args = NoCall
    /\ ret = NoReturn

NextPaths ==
    \/ \E path \in QueryPaths, ngo \in AskNgo, district \in AskDistrict :
         Query(path, ngo, district)
    \/ RunComputeFitness
    \/ RunGenerateAllScores

SpecPaths == InitPaths /\ [][NextPaths]_vars

\* ------------------------------------------------------------- raw needs
\* The normalizer run by hand on every damage table of the family and the
\* population tables of the pipeline runs (densities that differ, densities
\* all zero, no row).
InitRaw ==
    /\ damage \in DamageTables(MaxDamageRows)
    /\ pop \in PipePops
    /\ ngos = NoTable
    /\ needsFile = Absent
    /\ scoresFile = Absent
    /\ modelFile = NoPickle
    /\ orch = [status |-> "idle", next |-> 0, runs |-> 0]
    /\ st = [s \in Stages |-> IdleStage]
    /\ readers = [r \in 1..NReaders |-> IdleReader]
    /\ trained = FALSE
    /\ qres = NoQuery
    /\ sres = NoScript
    /\ args = NoCall
    /\ ret = NoReturn

NextRaw == RunBuildNeedMatrix

SpecRaw == InitRaw /\ [][NextRaw]_vars

\* ------------------------------------------------------------- claims
\* of the query paths and the scorers, under SpecQuery
Asked == qres.path # ""
UnknownName ==
    \/ qres.ngo \notin Keys(ngos.rows)
    \/ qres.district \notin Keys(needsFile.table.rows)
KnownNames == ~UnknownName
QCats == Cats(needsFile.table, ngos)
QNgoVec == ngos.rows[Find(ngos.rows, qres.ngo)].v
QRegVec == needsFile.table.rows[Find(needsFile.table.rows, qres.district)].v
AllZero(a, cats) == \A c \in cats : a[c] = 0
\* a check the path makes before it looks the names up has already failed
EarlierCheckFails ==
    \/ ~Complete(modelFile)
    \/ qres.path = "http" /\ (qres.ngo = "" \/ qres.district = "" \/ QCats = {})

\* C4 as stated: a query for a name that is in no table ends in an
\* UnknownEntity error and returns no fitness, on every query path.  (Stated
\* here of the queries that name both fields and find a model to load.)
C4_UnknownEndsInUnknownEntity ==
    (Asked /\ UnknownName /\ Complete(modelFile)
       /\ qres.ngo # "" /\ qres.district # "") =>
        /\ qres.res.kind \in UnknownEntityKinds
        /\ ~qres.res.predicted

\* C4 as amended: a query for a name that is in no table returns no fitness
\* and computes no score; it ends in an error, which is UnknownEntity unless
\* a check the path makes earlier (model load, missing field, category
\* overlap on the HTTP path) fails first.
C4_UnknownNeverAnswered ==
    (Asked /\ UnknownName) =>
        /\ ~qres.res.predicted
        /\ ~qres.res.scored
        /\ qres.res.kind # "ok"
        /\ ~EarlierCheckFails => qres.res.kind \in UnknownEntityKinds

C4_Witness ==
    /\ qres.path = "http" /\ qres.ngo = "Z" /\ qres.district = "d1"
    /\ "d1" \in Keys(needsFile.table.rows)
    /\ qres.res.kind = "Http404"

\* C5: on every scoring path, an all-zero capability or need vector gives
\* match 0 exactly: the path raises nothing and hands no NaN to the model.
C5_ZeroVectorMatchIsZero ==
    /\ (Asked /\ KnownNames /\ ~EarlierCheckFails /\ QCats # {}
          /\ (AllZero(QNgoVec, QCats) \/ AllZero(QRegVec, QCats)))
       => (qres.res.kind = "ok" /\ qres.res.scored /\ qres.res.match = 0)
    /\ scoresFile.exists =>
         \A k \in 1..Len(scoresFile.table.rows) :
            LET r == scoresFile.table.rows[k]
                i == Find(ngos.rows, r.NGO)
                j == Find(needsFile.table.rows, r.district)
            IN (QCats # {} /\ (AllZero(ngos.rows[i].v, QCats)
                                \/ AllZero(needsFile.table.rows[j].v, QCats)))
               => r.match = 0

\* C7: with no category column shared by the two tables, a query for a
\* known NGO and district whose model loads fails with NoOverlap and scores
\* nothing, and compute_fitness.py fails with NoOverlap.
C7_NoOverlapAlwaysFails ==
    /\ (Asked /\ KnownNames /\ ~EarlierCheckFails /\ QCats = {}
          /\ qres.ngo # "" /\ qres.district # "")
       => (qres.res.kind \in NoOverlapKinds /\ ~qres.res.scored)
    /\ (sres.script = "compute_fitness" /\ QCats = {})
       => sres.err \in NoOverlapKinds

\* C10 as stated: every scored pair's label is
\* 0.7 * (match + 1) / 2 + 0.3 * urgency.
C10_LabelUsesRescaledMatch ==
    (sres.script = "compute_fitness" /\ scoresFile.exists) =>
        \A k \in 1..Len(scoresFile.table.rows) :
           LET r == scoresFile.table.rows[k]
           IN 2 * r.fitness_score = 7 * (r.match + Percent) + 6 * r.urgency

\* C10 as amended: every scored pair's label is 0.7 * match + 0.3 * urgency,
\* with match as the cosine returned it (no rescaling).
C10_LabelIsWeightedSum ==
    (sres.script = "compute_fitness" /\ scoresFile.exists) =>
        \A k \in 1..Len(scoresFile.table.rows) :
           LET r == scoresFile.table.rows[k]
           IN r.fitness_score = 7 * r.match + 3 * r.urgency

C10_Witness ==
    /\ sres.script = "compute_fitness" /\ scoresFile.exists
    /\ \E k \in 1..Len(scoresFile.table.rows) :
          /\ scoresFile.table.rows[k].match > 0
          /\ scoresFile.table.rows[k].match < Percent
          /\ scoresFile.table.rows[k].urgency > 0

\* ------------------------------------------------------------- claims
\* of the need matrix, under SpecNorm
Built == sres.script = "build_need_matrix" /\ sres.rc = 0
NeedColumn(c) ==
    {needsFile.table.rows[k].v[c] : k \in 1..Len(needsFile.table.rows)}
\* the column before scaling, from the joined input rows
RawColumn(c) ==
    LET df == merge(damage, pop)
        pops == {df.rows[k].v["pop_density"] : k \in 1..Len(df.rows)}
    IN {raw_needs(df.rows[k].v, Max(pops))[c] : k \in 1..Len(df.rows)}

\* C9: after the normalizer has run on a non-empty district table, every
\* need column has minimum 0 and maximum 100 over the districts, or is 0
\* throughout when the raw column is constant.
C9_ColumnsSpanZeroToHundred ==
    Built =>
      \A c \in NeedCols :
         IF Cardinality(RawColumn(c)) = 1
         THEN NeedColumn(c) = {0}
         ELSE /\ Min(NeedColumn(c)) = 0
              /\ Max(NeedColumn(c)) = Percent

\* the same with the population densities not all zero (not a claim: the
\* part of C9 that the code keeps)
C9_HoldsWithPositiveDensity ==
    (Built /\ \E k \in 1..Len(needsFile.table.rows) :
                 needsFile.table.rows[k].v["pop_density"] > 0)
      => \A c \in NeedCols :
            IF Cardinality(RawColumn(c)) = 1
            THEN NeedColumn(c) = {0}
            ELSE /\ Min(NeedColumn(c)) = 0
                 /\ Max(NeedColumn(c)) = Percent

\* ------------------------------------------------------------- claims
\* of the pipeline and the model artifact, under Spec
PartialLoad == {"EOFError", "UnpicklingError"}

\* C1: a reader that has opened model.pkl loads a whole model, the old one
\* or the new one, whatever the training run is doing: never an empty or a
\* cut-off file.
C1_ReadersLoadWholeModel ==
    \A r \in 1..NReaders :
       readers[r].pc = "done" => readers[r].res.kind \notin PartialLoad

\* C2: compute_fitness is not started before build_matrix has returned, and
\* train_model not before compute_fitness has returned.
C2_StagesInOrder ==
    \A k \in 2..Len(Pipeline) :
       st[Pipeline[k]].pc # "idle" => st[Pipeline[k - 1]].pc = "returned"

C2_Witness ==
    /\ st["train_model"].pc = "returned"
    /\ orch.status = "complete"

\* C3: once a stage has failed no later stage is started, the failed stage
\* has been started once, and the three outputs are as they were when the
\* failed stage started.
C3_FailedStageLeavesOutputs ==
    \A k \in 1..Len(Pipeline) :
       st[Pipeline[k]].pc = "failed" =>
          /\ \A j \in (k + 1)..Len(Pipeline) : st[Pipeline[j]].pc = "idle"
          /\ st[Pipeline[k]].starts = 1
          /\ Snapshot = st[Pipeline[k]].snap

\* C6: a request made while there is no model.pkl ends in the error of the
\* missing file, and no request is answered with a prediction before a
\* training run has written a whole model.pkl.
C6_NoPredictionBeforeTraining ==
    \A r \in 1..NReaders :
       /\ (readers[r].pc = "done" /\ readers[r].noArtifact) =>
             /\ readers[r].res.kind \in ModelNotTrainedKinds
             /\ ~readers[r].res.predicted
       /\ readers[r].res.predicted => trained

C6_Witness ==
    \E r \in 1..NReaders :
       /\ readers[r].pc = "done" /\ readers[r].noArtifact
       /\ readers[r].path = "http" /\ needsFile.exists
       /\ readers[r].res.kind = "FileNotFoundError"
       /\ st["train_model"].pc = "writing"

\* C8: a training run on a scored-pairs table with no valid row never gets
\* past its split: it ends in the error of the empty dataset (unless the
\* function's timeout cuts it first) and model.pkl is left as it was.
EmptyDatasetKinds == {"EmptyDataError", "EmptySplitValueError"}
NoValidPair ==
    /\ scoresFile.exists
    /\ scoresFile.table.cols # {} => Len(TrainRows(scoresFile.table)) = 0
C8_EmptyDatasetFails ==
    (st["train_model"].pc # "idle" /\ NoValidPair) =>
        /\ st["train_model"].pc \in {"running", "failed"}
        /\ st["train_model"].pc = "failed" =>
              st["train_model"].err \in EmptyDatasetKinds \cup {"Timeout"}
        /\ modelFile = st["train_model"].snap.model

C8_Witness ==
    /\ st["train_model"].pc = "failed"
    /\ st["train_model"].err = "EmptyDataError"
    /\ NoValidPair
    /\ Complete(modelFile)

\* ------------------------------------------------------------- claims
\* of the batch scorers, under SpecBatch
AllPairs == Keys(ngos.rows) \X Keys(needsFile.table.rows)
RowsFor(n, d) ==
    {k \in 1..Len(scoresFile.table.rows) :
        /\ scoresFile.table.rows[k].NGO = n
        /\ scoresFile.table.rows[k].district = d}

\* C11: a run of generate_all_scores.py either fails or writes exactly one
\* row for every (NGO, district) combination: no pair is left out silently.
C11_BatchFailsOrScoresEveryPair ==
    sres.script = "generate_all_scores" =>
       \/ sres.rc # 0
       \/ \A p \in AllPairs : Cardinality(RowsFor(p[1], p[2])) = 1

\* the pairs of rows of the two tables, and the label of a pair
RowPairs == (1..Len(ngos.rows)) \X (1..Len(needsFile.table.rows))
PairLabel(p) ==
    LET cats == Cats(clean_cols(needsFile.table), clean_cols(ngos))
        C == clean_cols(ngos).rows[p[1]].v
        N == clean_cols(needsFile.table).rows[p[2]].v
    IN label_of(cosine_guarded(C, N, cats), urgency_of(N, cats))
Labelled == {p \in RowPairs : ~IsNaN(PairLabel(p))}
Scored == sres.script = "compute_fitness" /\ sres.rc = 0

\* C12: the table compute_fitness.py writes has no row with a NaN label and
\* holds every pair of rows whose label is not NaN once (as many rows as
\* there are such pairs, and a row for each); the training set read from it
\* has no NaN label.
C12_NaNLabelsDropped ==
    Scored =>
       /\ \A k \in 1..Len(scoresFile.table.rows) :
             ~IsNaN(scoresFile.table.rows[k].fitness_score)
       /\ Len(scoresFile.table.rows) = Cardinality(Labelled)
       /\ \A p \in Labelled :
             \E k \in 1..Len(scoresFile.table.rows) :
                /\ scoresFile.table.rows[k].NGO = ngos.rows[p[1]].key
                /\ scoresFile.table.rows[k].district = needsFile.table.rows[p[2]].key
                /\ scoresFile.table.rows[k].fitness_score = PairLabel(p)
       /\ \A k \in 1..Len(TrainRows(scoresFile.table)) :
             ~IsNaN(TrainRows(scoresFile.table)[k][3])

C12_Witness ==
    /\ Scored
    /\ Labelled # {}
    /\ Labelled # RowPairs
    /\ Len(scoresFile.table.rows) = Cardinality(Labelled)

\* ------------------------------------------------------------- claims
\* of name matching, under SpecQuery
\* the stored name that a queried name is a spelling of
Spellings(name, stored) ==
    {x \in stored : normalize_district_name(x) = normalize_district_name(name)}
StoredNgo == CHOOSE x \in Spellings(qres.ngo, Keys(ngos.rows)) : TRUE
StoredDistrict ==
    CHOOSE x \in Spellings(qres.district, Keys(needsFile.table.rows)) : TRUE

\* C13: a query whose names differ from stored names only in letter case or
\* outer whitespace gets the result that the stored names get.
C13_NamesMatchedLoosely ==
    (/\ Asked
     /\ Spellings(qres.ngo, Keys(ngos.rows)) # {}
     /\ Spellings(qres.district, Keys(needsFile.table.rows)) # {})
    => \E nanOk \in BOOLEAN :
          qres.res = Answer(qres.path, StoredNgo, StoredDistrict, nanOk)

\* ------------------------------------------------------------- claims
\* of urgency, under SpecQuery
\* u is the mean of the components of N over cats, in units of 1/Percent
\* and rounded down
IsMeanOver(u, N, cats) ==
    /\ Cardinality(cats) * u <= SumVec(N, cats)
    /\ SumVec(N, cats) < Cardinality(cats) * (u + 1)
UrgencyOf(u, N, cats) ==
    /\ IsMeanOver(u, N, cats)
    /\ 0 <= u /\ u <= Percent
    /\ (\A c \in cats : N[c] = Percent) => u = Percent
    /\ (\A c \in cats : N[c] = 0) => u = 0

\* C14: wherever a pair is scored over a non-empty category set, urgency is
\* the mean of the district's need components divided by 100: it lies in
\* [0,1], is 1 when every component is 100 and 0 when every component is 0.
C14_UrgencyIsMeanOfNeeds ==
    /\ (Asked /\ qres.res.scored /\ QCats # {})
         => UrgencyOf(qres.res.urgency, QRegVec, QCats)
    /\ (sres.script # "" /\ scoresFile.exists /\ QCats # {}) =>
         \A k \in 1..Len(scoresFile.table.rows) :
            LET r == scoresFile.table.rows[k]
            IN \E j \in 1..Len(needsFile.table.rows) :
                  /\ needsFile.table.rows[j].key = r.district
                  /\ UrgencyOf(r.urgency, needsFile.table.rows[j].v, QCats)

C14_Witness ==
    /\ Asked /\ qres.res.scored /\ qres.path = "predict_fitness"
    /\ Cardinality(QCats) = 2
    /\ \A c \in QCats : QRegVec[c] = Percent
    /\ qres.res.urgency = Percent

\* ------------------------------------------------------------- claims
\* of the producers of the scored-pairs table, under SpecProducers
Produced == sres.script # "" /\ sres.rc = 0 /\ scoresFile.exists
\* the row r is what the one definition gives for a pair of rows of the
\* tables: match the cosine of the two vectors, urgency the mean of the
\* needs over 100, fitness on the scale of the label
CanonicalRow(r) ==
    \E i \in 1..Len(ngos.rows), j \in 1..Len(needsFile.table.rows) :
       /\ ngos.rows[i].key = r.NGO
       /\ needsFile.table.rows[j].key = r.district
       /\ r.match = cosine_guarded(ngos.rows[i].v, needsFile.table.rows[j].v, QCats)
       /\ IsMeanOver(r.urgency, needsFile.table.rows[j].v, QCats)
       /\ 0 <= r.fitness_score /\ r.fitness_score <= 10 * Percent
\* a pair whose vectors are both non-zero over the shared categories
Regular(r) ==
    /\ QCats # {}
    /\ \A i \in 1..Len(ngos.rows) :
          ngos.rows[i].key = r.NGO => ~AllZero(ngos.rows[i].v, QCats)
    /\ \A j \in 1..Len(needsFile.table.rows) :
          needsFile.table.rows[j].key = r.district =>
             ~AllZero(needsFile.table.rows[j].v, QCats)

\* C15: whichever script wrote the scored-pairs table, the row of a pair
\* holds match, urgency and fitness under the one definition and scale.
C15_OneDefinitionAcrossProducers ==
    Produced =>
       \A k \in 1..Len(scoresFile.table.rows) :
          Regular(scoresFile.table.rows[k]) => CanonicalRow(scoresFile.table.rows[k])

\* the same of the two scripts that score from the need matrix (not a
\* claim: the part of C15 that the code keeps)
C15_HoldsOfNeedMatrixScorers ==
    (Produced /\ sres.script # "generate_ngo_scores") =>
       \A k \in 1..Len(scoresFile.table.rows) :
          Regular(scoresFile.table.rows[k]) => CanonicalRow(scoresFile.table.rows[k])

\* ------------------------------------------------------------- claims
\* of cosine, under SpecCosine
Called == ret.fn # ""
ZeroNorm(a, cats) == \A c \in cats : a[c] = 0

\* C16: match(a, b) == match(b, a) for all vectors of equal length, the
\* zero vectors included, in both cosine functions.
C16_MatchIsSymmetric ==
    Called => FloatEq(ret.ab, ret.ba)

\* the same where no vector is zero, and in the guarded cosine everywhere
\* (not a claim: the part of C16 that the code keeps)
C16_HoldsOffZeroNorm ==
    (/\ Called
     /\ \/ ret.fn = "compute_fitness.cosine"
        \/ ~ZeroNorm(args.a, args.cats) /\ ~ZeroNorm(args.b, args.cats))
    => FloatEq(ret.ab, ret.ba)

\* C17: the guarded cosine returns a match in [-1,1], and 0 when either
\* vector has zero norm.
C17_MatchWithinUnitInterval ==
    (Called /\ ret.fn = "compute_fitness.cosine") =>
       /\ 0 - Percent <= ret.ab /\ ret.ab <= Percent
       /\ (ZeroNorm(args.a, args.cats) \/ ZeroNorm(args.b, args.cats)) => ret.ab = 0

\* b is a positive multiple of a
Multiple(a, b, cats) ==
    \E k \in 1..Percent : \A c \in cats : b[c] = k * a[c]
\* C18: the match of a vector of positive entries and a positive multiple
\* of it is 1, and so is the match of [1,0,...,0] and [100,0,...,0].
C18_ParallelVectorsMatchOne ==
    (/\ Called /\ ret.fn = "compute_fitness.cosine"
     /\ Multiple(args.a, args.b, args.cats)
     /\ \/ \A c \in args.cats : args.a[c] > 0
        \/ args.a = Unit(1) /\ args.b = Unit(Percent))
    => ret.ab = Percent

\* the example of C18 (not a claim: the part of C18 that the code keeps)
C18_HoldsOfTheExample ==
    (/\ Called /\ ret.fn = "compute_fitness.cosine"
     /\ args.a = Unit(1) /\ args.b = Unit(Percent))
    => ret.ab = Percent

\* ------------------------------------------------------------- claims
\* of the stages run by hand, under SpecStages
Reran(s) ==
    /\ st'[s].starts = st[s].starts + 1
    /\ st[s].starts >= 1
    /\ Reads(s, Found') = Reads(s, st[s].snap)
SameOutcome(s) ==
    /\ st'[s].pc = st[s].pc
    /\ st'[s].err = st[s].err
    /\ Output(s, Found') = Output(s, Found)

NormalizerRuns == st'["build_matrix"].starts = st["build_matrix"].starts + 1
\* a column read by lines 8-18 is not in the table it is read from
MissingColumn ==
    ~(DamageCols \subseteq damage.cols /\ PopCols \subseteq pop.cols)
\* the join of the two tables has no row
EmptyInput == Len(merge(damage, pop).rows) = 0
RaisedWith(e) ==
    /\ st'["build_matrix"].pc = "failed"
    /\ st'["build_matrix"].err = e
    /\ needsFile' = needsFile

\* C20: a run of the Need Normalizer on tables that lack a raw metric or
\* the population density ends in an error (KeyError), a run on tables
\* whose join has no row ends in an error (the scaler's ValueError), and
\* neither writes the need matrix.
C20_NormalizerFailsWithoutWriting ==
    [][NormalizerRuns =>
         /\ MissingColumn => RaisedWith("KeyError")
         /\ (~MissingColumn /\ EmptyInput) => RaisedWith("EmptyValueError")]_vars

\* the Need Normalizer has run on a table lacking a column and raised, the
\* need matrix of an earlier run still in its place
C20_Witness ==
    /\ st["build_matrix"].starts >= 1
    /\ MissingColumn
    /\ st["build_matrix"].snap.pop = pop
    /\ st["build_matrix"].err = "KeyError"
    /\ needsFile = OldNeeds

\* helper: the other case of C20 happens too, a run on tables that have
\* every column and no row in their join
C20_EmptyInputSeen ==
    ~(/\ st["build_matrix"].starts >= 1
      /\ ~MissingColumn /\ EmptyInput
      /\ st["build_matrix"].snap.pop = pop
      /\ st["build_matrix"].err = "EmptyValueError")


\* ------------------------------------------------------------- claims
\* of the raw need columns, under SpecRaw
\* the eleven columns as the formulas state them, for one joined row; hi is
\* the largest population density of the joined table (a quotient by a
\* largest density of 0 is 0/0, NaN)
StatedNeeds(v, hi) ==
    LET shelter_need == v["houses_destroyed_pct"]
        logistics_need == Percent - v["road_accessibility_score"]
    IN (Shelter :> shelter_need) @@
       (Wash :> IF hi = 0 THEN NaN
                ELSE (v["water_facilities_damaged_pct"] * v["pop_density"]) \div hi) @@
       (Food :> v["food_insecure_households_pct"]) @@
       (Logistics :> logistics_need) @@
       (Rescue :> (shelter_need * logistics_need) \div Percent) @@
       (Health :> v["health_facilities_damaged_pct"]) @@
       (Cash :> (v["poverty_rate"] * v["houses_destroyed_pct"]) \div Percent) @@
       (Comms :> Percent - v["telecom_coverage_pct"]) @@
       (Psych :> v["displaced_pop_pct"]) @@
       (Infra :> v["public_infra_damaged_pct"]) @@
       (Agri :> v["farmland_lost_pct"])
\* C21: the need matrix the normalizer writes is the scaling of the columns
\* the formulas state: for every district, logistics = 100 - road
\* accessibility, rescue = shelter x logistics / 100, cash = poverty x
\* houses destroyed / 100, comms = 100 - telecom coverage, wash = water
\* damage x density / largest density, the other six their raw metric.
C21_RawNeedsFollowFormulas ==
    Built =>
      LET rows == needsFile.table.rows
          n == Len(rows)
          \* the file keeps the raw metrics and the density of every row
          hi == Max({rows[k].v["pop_density"] : k \in 1..n})
          stated == [k \in 1..n |-> StatedNeeds(rows[k].v, hi)]
      IN \A c \in NeedCols :
            LET col == [k \in 1..n |-> stated[k][c]]
            IN \A k \in 1..n : rows[k].v[c] = minmax(col, col[k])

\* a matrix built from two districts that differ in every raw metric and in
\* density, so that every derived column shows in the scaled matrix
C21_Witness ==
    /\ Built
    /\ Len(needsFile.table.rows) = 2
    /\ \A c \in NeedCols : NeedColumn(c) = {0, Percent}
    /\ needsFile.table.rows[1].v["pop_density"] # needsFile.table.rows[2].v["pop_density"]


\* ------------------------------------------------------------- claims
\* of the training and inference scorers, under SpecPaths
\* the category columns the training scorer selects, and the inference
\* scorers' under the training scorer's spelling
TrainingCats == Cats(clean_cols(needsFile.table), clean_cols(ngos))
InferenceCats == {Clean(c) : c \in Cats(needsFile.table, ngos)}
\* the (match, urgency) the training scorer computes for a pair of names,
\* whether or not it keeps the pair
TrainingFeatures(ngo, district) ==
    LET needs == clean_cols(needsFile.table)
        ngos_ == clean_cols(ngos)
    IN {<<cosine_guarded(ngos_.rows[i].v, needs.rows[j].v, TrainingCats),
          urgency_of(needs.rows[j].v, TrainingCats)>> :
          i \in {x \in 1..Len(ngos_.rows) : ngos_.rows[x].key = ngo},
          j \in {y \in 1..Len(needs.rows) : needs.rows[y].key = district}}
\* the rows the batch inference scorer wrote
InferenceRows ==
    IF sres.script = "generate_all_scores" /\ scoresFile.exists
    THEN {scoresFile.table.rows[k] : k \in 1..Len(scoresFile.table.rows)}
    ELSE {}

\* C22: a query path or the batch inference scorer that scores a pair
\* selects the category columns the training scorer selects on the same
\* two tables and computes the (match, urgency) that the training scorer
\* computes for that pair.
C22_ScorersEquivalent ==
    /\ (Asked /\ qres.res.scored) =>
          /\ InferenceCats = TrainingCats
          /\ <<qres.res.match, qres.res.urgency>>
                \in TrainingFeatures(qres.ngo, qres.district)
    /\ \A r \in InferenceRows :
          /\ InferenceCats = TrainingCats
          /\ <<r.match, r.urgency>> \in TrainingFeatures(r.NGO, r.district)

\* helper: the two scorers agree where the headers need no cleaning, a
\* category is shared and neither vector is all-zero
C22_HoldsOfCleanHeadersOffZero ==
    (/\ Asked /\ qres.res.scored
     /\ RescuePunct \notin ngos.cols
     /\ ~IsNaN(qres.res.match) /\ ~IsNaN(qres.res.urgency))
    => /\ InferenceCats = TrainingCats
       /\ <<qres.res.match, qres.res.urgency>>
             \in TrainingFeatures(qres.ngo, qres.district)

\* helper: with a punctuated header they differ on vectors that are not
\* all-zero and share a category (TLC reports the state)
C22_PunctuatedHeaderAgrees ==
    (/\ Asked /\ qres.res.scored
     /\ RescuePunct \in ngos.cols
     /\ ~IsNaN(qres.res.match) /\ ~IsNaN(qres.res.urgency))
    => <<qres.res.match, qres.res.urgency>>
          \in TrainingFeatures(qres.ngo, qres.district)


\* ------------------------------------------------------------- claims
\* of the districts of the need matrix, under SpecNorm
\* the number of rows of a table for a district
RowsOf(T, d) == Cardinality({k \in 1..Len(T.rows) : T.rows[k].key = d})

\* C23: the need matrix the normalizer writes has, for every district, as
\* many rows as the damage table has (one for a district listed once): the
\* join with the population table drops no district and duplicates none.
C23_OneRowPerDistrict ==
    Built =>
      \A d \in Keys(damage.rows) \cup Keys(needsFile.table.rows) :
         RowsOf(needsFile.table, d) = RowsOf(damage, d)

\* helper: the same where the population table has exactly one row for
\* every district of the damage table (the part of C23 that the code keeps)
C23_HoldsOfMatchingPopulation ==
    (Built /\ \A d \in Keys(damage.rows) : RowsOf(pop, d) = 1)
      => \A d \in Keys(damage.rows) \cup Keys(needsFile.table.rows) :
            RowsOf(needsFile.table, d) = RowsOf(damage, d)

\* helper: a district without a population row is never in the matrix (TLC
\* reports nothing), and one with two population rows is never there once
\* (TLC reports nothing)
C23_JoinDropsAndDuplicates ==
    Built =>
      \A d \in Keys(damage.rows) :
         /\ RowsOf(pop, d) = 0 => RowsOf(needsFile.table, d) = 0
         /\ RowsOf(pop, d) = 2 => RowsOf(needsFile.table, d) = 2 * RowsOf(damage, d)

====
